---------------------------- MODULE Spec2Model ----------------------------
(***************************************************************************)
(* A model of the Portfolio Coach analytics pipeline:                      *)
(*   src/src/portfolio.py  weight_long_only, backtest                      *)
(*   src/src/signals.py    zscore, composite_alpha                         *)
(*   src/src/data_layer.py fetch_prices (functools.lru_cache)              *)
(*   src/src/features.py   pct_change, rolling_vol, make_feature_panel     *)
(*   src/src/utils.py      performance_stats                               *)
(*   src/app.py            load_or_build_merged (st.cache_data + parquet   *)
(*                         file) and the Fama-French regression section    *)
(*                                                                         *)
(* Real numbers are exact rationals <<n, d>> with d > 0 in lowest terms;   *)
(* pandas' not-a-number is the pair <<0, 0>>.                              *)
(*                                                                         *)
(* Specifications, one per section of the program:                         *)
(*   SpecW  weight_long_only on an alpha Series and a quantile             *)
(*   SpecB  backtest on a weight table and two price tables                *)
(*   SpecA  composite_alpha on two feature panels                          *)
(*   SpecF  reruns of the script: fetch_prices, load_or_build_merged with  *)
(*          its two caches and the parquet file, the regression section    *)
(*   SpecP  performance_stats on a return series                           *)
(*   SpecM  make_feature_panel on a price table with missing prices        *)
(***************************************************************************)
EXTENDS Integers, Sequences, FiniteSets, TLC

(***************************************************************************)
(* Bounds of the model.                                                    *)
(***************************************************************************)
\* weight_long_only: size of the universe (alpha scores range over
\* 1 .. NumAssets, which is enough to give n assets any order with ties)
NumAssets == 5
\* backtest: tickers, price dates and the largest price of its inputs
NumTickersB == 2
NumDatesB == 4
MaxPrice == 2
\* composite_alpha: dates, tickers and the largest feature value of a panel
NumDatesA == 2
NumTickersA == 2
MaxFeat == 2
\* Fama-French table: months of history when the session starts, trading
\* days per month, later publications, reruns of the script, clock ticks
\* and the length of a tick in seconds
Horizon0 == 14
DaysPerMonth == 2
MaxNewData == 1
MaxRuns == 2
MaxTicks == 1
TickSeconds == 43200
\* performance_stats: periods of the longest return series
MaxLenP == 3
\* make_feature_panel: dates and tickers of the price table
NumDatesM == 255
NumTickersM == 2

(***************************************************************************)
(* Constants of the program.                                               *)
(***************************************************************************)
\* @st.cache_data(ttl=43200)
TTL == 43200
\* @lru_cache(maxsize=8)
LruMaxSize == 8
\* if len(df_t) >= 12
MinObs == 12
\* 252/len(series) and 252 ** 0.5, np.sqrt(252)
PeriodsPerYear == 252
\* pct_change(prices, 252), pct_change(prices, 63), rolling_vol(prices, 60)
Mom12Window == 252
Mom3Window == 63
VolWindow == 60

(***************************************************************************)
(* Exact arithmetic.                                                       *)
(***************************************************************************)
NaN == <<0, 0>>

IsNaN(x) == x[2] = 0

Abs(n) == IF n < 0 THEN -n ELSE n

RECURSIVE GCD(_, _)
GCD(a, b) == IF b = 0 THEN a ELSE GCD(b, a % b)

\* the rational n/d in lowest terms with a positive denominator; x/0 with
\* x = 0 is not-a-number (the only division by zero the modelled code makes)
Rat(n, d) ==
    IF d = 0 THEN NaN
    ELSE LET g == GCD(Abs(n), Abs(d))
             s == IF d < 0 THEN -1 ELSE 1
         IN  <<(s * n) \div g, (s * d) \div g>>

RInt(n) == <<n, 1>>

RAdd(x, y) == IF IsNaN(x) \/ IsNaN(y) THEN NaN
              ELSE Rat(x[1] * y[2] + y[1] * x[2], x[2] * y[2])

RSub(x, y) == IF IsNaN(x) \/ IsNaN(y) THEN NaN
              ELSE Rat(x[1] * y[2] - y[1] * x[2], x[2] * y[2])

RMul(x, y) == IF IsNaN(x) \/ IsNaN(y) THEN NaN
              ELSE Rat(x[1] * y[1], x[2] * y[2])

\* 0/0 is not-a-number; the modelled code never divides a non-zero value
\* by zero (see weight_long_only and pct_change over positive prices)
RDiv(x, y) == IF IsNaN(x) \/ IsNaN(y) THEN NaN
              ELSE Rat(x[1] * y[2], x[2] * y[1])

\* comparisons with not-a-number are False, as in IEEE 754
RGt(x, y) == ~IsNaN(x) /\ ~IsNaN(y) /\ x[1] * y[2] > y[1] * x[2]

RGe(x, y) == ~IsNaN(x) /\ ~IsNaN(y) /\ x[1] * y[2] >= y[1] * x[2]

RZero == RInt(0)
ROne == RInt(1)

\* Series.sum / DataFrame.sum(axis=1): not-a-number entries are skipped and
\* the sum of nothing is 0
RECURSIVE SumSkipNaN(_, _)
SumSkipNaN(f, S) ==
    IF S = {} THEN RZero
    ELSE LET k == CHOOSE k \in S : TRUE
             rest == SumSkipNaN(f, S \ {k})
         IN  IF IsNaN(f[k]) THEN rest ELSE RAdd(f[k], rest)

(***************************************************************************)
(* State.                                                                  *)
(***************************************************************************)
VARIABLES
    alpha,      \* weight_long_only's argument: Series keyed by <<date, ticker>>
    top_cut,    \* weight_long_only's argument: the quantile q
    w,          \* the weight table weight_long_only returned
    pcW,        \* "call" before weight_long_only ran, "done" after
    weights,    \* backtest's argument: date x ticker weight table
    prices,     \* backtest's argument: date x ticker price table
    prices2,    \* the same price table with one later price perturbed
    pert,       \* <<date, ticker>> of the perturbed price
    port,       \* backtest(weights, prices)
    port2,      \* backtest(weights, prices2)
    cum,        \* the equity curve of the model portfolio
    ew,         \* the equity curve of the equal-weight benchmark
    pcB,        \* "call" before backtest ran, "done" after, "charted"
                \* after the equity curve section
    panel,      \* composite_alpha's argument: <<date, ticker>> -> features
    panel2,     \* the same panel with one feature value of one row changed
    pertA,      \* <<date, ticker, feature>> of the changed value
    score,      \* composite_alpha(panel)
    score2,     \* composite_alpha(panel2)
    pcA,        \* "call" before composite_alpha ran, "done" after
    now,        \* the clock, in seconds
    pub,        \* months of history the sources have published
    runs,       \* reruns of the script so far
    memo,       \* st.cache_data of load_or_build_merged: tickers -> entry
    file,       \* data/merged_ff_data.parquet
    lru,        \* functools.lru_cache of fetch_prices, least recent first
    req,        \* the sidebar inputs of the current rerun
    pfetch,     \* what fetch_prices returned to the pipeline (app.py:491)
    held,       \* the download under way and the prices the body holds
    res,        \* how load_or_build_merged(tickers) ended
    merged,     \* the table it returned
    reg,        \* the outcome of the regression section
    pcF,        \* position of the script in the current rerun
    series,     \* performance_stats' argument: the return series
    stats,      \* what performance_stats(series) returned, or how it ended
    pcP,        \* "call" before performance_stats ran, "done" after
    table,      \* make_feature_panel's argument: date x ticker price table
    fill,       \* the fill_method DataFrame.pct_change defaults to
    feats,      \* the panel make_feature_panel returned
    pcM         \* "call" before make_feature_panel ran, "done" after

varsW == <<alpha, top_cut, w, pcW>>
varsB == <<weights, prices, prices2, pert, port, port2, cum, ew, pcB>>
varsA == <<panel, panel2, pertA, score, score2, pcA>>
varsF ==
    <<now, pub, runs, memo, file, lru, req, pfetch, held, res, merged, reg, pcF>>
varsP == <<series, stats, pcP>>
varsM == <<table, fill, feats, pcM>>
vars == <<varsW, varsB, varsA, varsF, varsP, varsM>>

IdleW == alpha = <<>> /\ top_cut = NaN /\ w = <<>> /\ pcW = "idle"
IdleB ==
    /\ weights = <<>> /\ prices = <<>> /\ prices2 = <<>> /\ pert = <<>>
    /\ port = <<>> /\ port2 = <<>> /\ cum = <<>> /\ ew = <<>> /\ pcB = "idle"
IdleA ==
    /\ panel = <<>> /\ panel2 = <<>> /\ pertA = <<>>
    /\ score = <<>> /\ score2 = <<>> /\ pcA = "idle"
IdleF ==
    /\ now = 0 /\ pub = 0 /\ runs = 0 /\ memo = <<>> /\ file = <<>> /\ lru = <<>>
    /\ req = <<>> /\ pfetch = <<>> /\ held = <<>>
    /\ res = <<>> /\ merged = {} /\ reg = <<>>
    /\ pcF = "off"
IdleP == series = <<>> /\ stats = <<>> /\ pcP = "idle"
IdleM == table = <<>> /\ fill = "" /\ feats = <<>> /\ pcM = "idle"

(***************************************************************************)
(* src/src/portfolio.py: weight_long_only                                  *)
(***************************************************************************)
Assets == 1 .. NumAssets        \* A = 1, B = 2, C = 3, D = 4, E = 5

SeriesDates(s) == {k[1] : k \in DOMAIN s}
SeriesTickers(s) == {k[2] : k \in DOMAIN s}

\* Series.unstack(): date x ticker table over the dates and the tickers that
\* occur in the index; a pair that does not occur is not-a-number
unstack(s) ==
    [d \in SeriesDates(s) |->
        [a \in SeriesTickers(s) |->
            IF <<d, a>> \in DOMAIN s THEN s[<<d, a>>] ELSE NaN]]

\* DataFrame.rank(axis=1, pct=True, ascending=False) on one row: average
\* rank among the valid values, largest value first, over the valid count
RankPctDesc(row) ==
    LET valid == {a \in DOMAIN row : ~IsNaN(row[a])}
    IN  [a \in DOMAIN row |->
            IF IsNaN(row[a]) THEN NaN
            ELSE LET greater == Cardinality({b \in valid : RGt(row[b], row[a])})
                     equal   == Cardinality({b \in valid : row[b] = row[a]})
                 IN  Rat(2 * greater + equal + 1, 2 * Cardinality(valid))]

\* ranks > (1 - top_cut)
LongMask(ranks, q) ==
    [a \in DOMAIN ranks |-> RGt(ranks[a], RSub(ROne, q))]

\* the same without .fillna(0): a row without a selected asset is 0/0
WeightRowNoFill(mask) ==
    LET n == Cardinality({a \in DOMAIN mask : mask[a]})
    IN  [a \in DOMAIN mask |-> RDiv(RInt(IF mask[a] THEN 1 ELSE 0), RInt(n))]

\* long_mask.div(long_mask.sum(axis=1), axis=0).fillna(0) on one row
WeightRow(mask) ==
    LET n == Cardinality({a \in DOMAIN mask : mask[a]})
    IN  [a \in DOMAIN mask |->
            LET x == RDiv(RInt(IF mask[a] THEN 1 ELSE 0), RInt(n))
            IN  IF IsNaN(x) THEN RZero ELSE x]

weight_long_only(s, q) ==
    LET alpha_df == unstack(s)
    IN  [d \in DOMAIN alpha_df |-> WeightRow(LongMask(RankPctDesc(alpha_df[d]), q))]

(***************************************************************************)
(* Inputs of weight_long_only.  The alpha Series has two dates, as         *)
(* composite_alpha over a feature panel gives it: on the earlier date only *)
(* the first k assets have a row (the others have no complete feature row  *)
(* yet, make_feature_panel dropped them) and their scores are tied, for k  *)
(* none, two or all of the assets; the later date has a row for every      *)
(* asset, with any score or not-a-number.                                  *)
(***************************************************************************)
\* last = weights.index[-1]
LastDate == CHOOSE d \in SeriesDates(alpha) : \A e \in SeriesDates(alpha) : e <= d

AlphaVals == {RInt(v) : v \in 1 .. NumAssets}

\* the slider of src/app.py: its default 0.2 and its maximum 0.5
TopCuts == {Rat(1, 5), Rat(1, 2)}

EarlyListed == {0, 2, NumAssets}

AlphaSeries(k, row) ==
    [key \in ({1} \X (1 .. k)) \cup ({2} \X Assets) |->
        IF key[1] = 1 THEN ROne ELSE row[key[2]]]

InitW ==
    /\ \E k \in EarlyListed, row \in [Assets -> AlphaVals \cup {NaN}] :
            alpha = AlphaSeries(k, row)
    /\ top_cut \in TopCuts
    /\ w = <<>>
    /\ pcW = "call"
    /\ IdleB /\ IdleA /\ IdleF /\ IdleP /\ IdleM

\* weights = weight_long_only(alpha, q_long)
WeightLongOnly ==
    /\ pcW = "call"
    /\ w' = weight_long_only(alpha, top_cut)
    /\ pcW' = "done"
    /\ UNCHANGED <<alpha, top_cut, varsB, varsA, varsF, varsP, varsM>>

NextW == WeightLongOnly

SpecW == InitW /\ [][NextW]_vars

(***************************************************************************)
(* Claims about weight_long_only (checked under SpecW).                    *)
(***************************************************************************)
Positive(row) == {a \in DOMAIN row : RGt(row[a], RZero)}

ValidOn(d) == {a \in Assets : <<d, a>> \in DOMAIN alpha /\ ~IsNaN(alpha[<<d, a>>])}

DistinctOn(d) ==
    \A a, b \in ValidOn(d) : a # b => alpha[<<d, a>>] # alpha[<<d, b>>]

\* the scenario of the specification: scores [5, 4, 3, 2, 1] for A .. E
ScenarioOnLastDate ==
    /\ NumAssets >= 5
    /\ \A a \in 1 .. 5 : alpha[<<LastDate, a>>] = RInt(6 - a)
    /\ \A a \in Assets \ (1 .. 5) : IsNaN(alpha[<<LastDate, a>>])
    /\ top_cut = Rat(1, 5)

\* C1: weight_long_only gives nonzero weight only to the assets with the
\* highest alpha of the date: with scores [5, 4, 3, 2, 1] and q = 0.2 asset A
\* gets weight 1 and the others 0, and for distinct scores no asset of
\* weight 0 has a higher score than an asset of positive weight.
C1_TopAlphaGetsWeight ==
    pcW = "done" =>
        /\ ScenarioOnLastDate =>
                \A a \in Assets :
                    w[LastDate][a] = (IF a = 1 THEN ROne ELSE RZero)
        /\ \A d \in DOMAIN w :
                DistinctOn(d) =>
                    \A a, b \in ValidOn(d) :
                        (w[d][a] = RZero /\ RGt(w[d][b], RZero))
                            => ~RGt(alpha[<<d, a>>], alpha[<<d, b>>])

\* C2: every date row of the weight matrix has all values in [0, 1] and is
\* either all zero or has equal positive weights 1/(number selected) that
\* sum to 1; an asset without a valid alpha on the date has weight 0, and a
\* row in which no asset qualifies is all zero rather than not-a-number.
C2_RowsZeroOrFullyInvested ==
    pcW = "done" =>
        /\ DOMAIN w = SeriesDates(alpha)
        /\ \A d \in DOMAIN w :
            LET row == w[d]
                k   == Cardinality(Positive(row))
            IN  /\ DOMAIN row = SeriesTickers(alpha)
                /\ \A a \in DOMAIN row :
                        /\ ~IsNaN(row[a])
                        /\ RGe(row[a], RZero) /\ RGe(ROne, row[a])
                        /\ a \notin ValidOn(d) => row[a] = RZero
                /\ \/ \A a \in DOMAIN row : row[a] = RZero
                   \/ /\ \A a \in Positive(row) : row[a] = Rat(1, k)
                      /\ SumSkipNaN(row, DOMAIN row) = ROne

\* a date on which valid assets exist and none qualifies (the zero divisor),
\* next to a date on which several assets share the weight
C2_Witness ==
    /\ pcW = "done"
    /\ \E d \in DOMAIN w :
            /\ Cardinality(ValidOn(d)) >= 2
            /\ \A a \in DOMAIN w[d] : w[d][a] = RZero
    /\ \E d \in DOMAIN w :
            /\ Cardinality(Positive(w[d])) >= 2
            /\ \E a \in DOMAIN w[d] : a \notin ValidOn(d)

\* round(x) of Python for x >= 0: to the nearest integer, a half to the
\* even neighbour
RoundHalfEven(x) ==
    LET f == x[1] \div x[2]
        r == 2 * (x[1] % x[2])
    IN  IF r > x[2] \/ (r = x[2] /\ f % 2 = 1) THEN f + 1 ELSE f

Selected(d) == Cardinality(Positive(w[d]))

\* C13: on every date the number of assets with positive weight differs by
\* at most one from round(q * n), n the number of assets with a valid
\* alpha on that date, whether or not alphas are tied; with q = 0.2 and 5
\* assets exactly 1 asset is selected.
C13_SelectedCountNearQuantile ==
    pcW = "done" =>
        \A d \in DOMAIN w :
            LET n == Cardinality(ValidOn(d))
            IN  /\ Abs(Selected(d) - RoundHalfEven(RMul(top_cut, RInt(n)))) <= 1
                /\ (top_cut = Rat(1, 5) /\ n = 5) => Selected(d) = 1

(***************************************************************************)
(* src/src/portfolio.py: backtest                                          *)
(***************************************************************************)
\* the columns of a table (every row has the same columns)
Columns(df) == IF DOMAIN df = {} THEN {} ELSE DOMAIN df[CHOOSE d \in DOMAIN df : TRUE]

HasPrev(idx, d) == \E e \in idx : e < d
Prev(idx, d) == CHOOSE e \in idx : e < d /\ \A f \in idx : f < d => f <= e
HasNext(idx, d) == \E e \in idx : e > d
NextIn(idx, d) == CHOOSE e \in idx : e > d /\ \A f \in idx : f > d => f >= e

NaNRow(cols) == [a \in cols |-> NaN]

\* DataFrame.pct_change(): p[t] / p[t-1] - 1 along the index, first row
\* not-a-number (the price tables of this model hold no missing price)
PctChange(df) ==
    [d \in DOMAIN df |->
        IF HasPrev(DOMAIN df, d)
        THEN [a \in Columns(df) |->
                RSub(RDiv(df[d][a], df[Prev(DOMAIN df, d)][a]), ROne)]
        ELSE NaNRow(Columns(df))]

\* DataFrame.shift(): every row moves to the next index label
Shift(df) ==
    [d \in DOMAIN df |->
        IF HasPrev(DOMAIN df, d) THEN df[Prev(DOMAIN df, d)] ELSE NaNRow(Columns(df))]

\* DataFrame.shift(-1): every row moves to the previous index label
ShiftBack(df) ==
    [d \in DOMAIN df |->
        IF HasNext(DOMAIN df, d) THEN df[NextIn(DOMAIN df, d)] ELSE NaNRow(Columns(df))]

Cell(df, d, a) == IF d \in DOMAIN df /\ a \in Columns(df) THEN df[d][a] ELSE NaN

\* x * y of two tables: aligned on the union of the indexes and of the
\* columns, not-a-number where either side has no value
MulAligned(x, y) ==
    [d \in DOMAIN x \cup DOMAIN y |->
        [a \in Columns(x) \cup Columns(y) |-> RMul(Cell(x, d, a), Cell(y, d, a))]]

\* DataFrame.sum(axis=1)
SumRows(df) == [d \in DOMAIN df |-> SumSkipNaN(df[d], DOMAIN df[d])]

backtest(wts, px) ==
    LET daily_ret == ShiftBack(PctChange(px))
    IN  SumRows(MulAligned(Shift(wts), daily_ret))

(***************************************************************************)
(* Inputs of backtest: a price table without gaps over DatesB and a weight *)
(* table over a final stretch of those dates (the feature panel starts     *)
(* after its warm-up) whose rows are all zero or equal weights over some   *)
(* tickers, as weight_long_only and the benchmark produce them.  prices2   *)
(* is prices with one price raised by one.                                 *)
(***************************************************************************)
TickersB == 1 .. NumTickersB
DatesB == 1 .. NumDatesB

EqualWeightRow(S) ==
    [a \in TickersB |-> IF a \in S THEN Rat(1, Cardinality(S)) ELSE RZero]

WeightRowsB == {EqualWeightRow(S) : S \in SUBSET TickersB}

PriceTables == [DatesB -> [TickersB -> {RInt(v) : v \in 1 .. MaxPrice}]]

Perturbed(px, d, a) ==
    [px EXCEPT ![d] = [px[d] EXCEPT ![a] = RAdd(px[d][a], ROne)]]

InitB ==
    /\ \E first \in DatesB : weights \in [first .. NumDatesB -> WeightRowsB]
    /\ prices \in PriceTables
    /\ pert \in DatesB \X TickersB
    /\ prices2 = Perturbed(prices, pert[1], pert[2])
    /\ port = <<>> /\ port2 = <<>>
    /\ cum = <<>> /\ ew = <<>>
    /\ pcB = "call"
    /\ IdleW /\ IdleA /\ IdleF /\ IdleP /\ IdleM

\* perf = backtest(weights, prices), on both price tables
Backtest ==
    /\ pcB = "call"
    /\ port' = backtest(weights, prices)
    /\ port2' = backtest(weights, prices2)
    /\ pcB' = "done"
    /\ UNCHANGED <<weights, prices, prices2, pert, cum, ew>>
    /\ UNCHANGED <<varsW, varsA, varsF, varsP, varsM>>

\* Series.dropna()
dropna(s) == [d \in {e \in DOMAIN s : ~IsNaN(s[e])} |-> s[d]]

\* Series.cumprod() of a series without not-a-number
RECURSIVE ProdOver(_, _)
ProdOver(s, S) ==
    IF S = {} THEN ROne
    ELSE LET k == CHOOSE k \in S : TRUE IN RMul(s[k], ProdOver(s, S \ {k}))

cumprod(s) == [d \in DOMAIN s |-> ProdOver(s, {e \in DOMAIN s : e <= d})]

\* perf + 1
PlusOne(s) == [d \in DOMAIN s |-> RAdd(s[d], ROne)]

\* perf = backtest(weights, prices).dropna()
perf == dropna(port)

\* pd.DataFrame(1/len(tickers), index=perf.index, columns=tickers)
EqualWeightTable(idx) == [d \in idx |-> EqualWeightRow(TickersB)]

\* the period returns of the benchmark:
\* backtest(pd.DataFrame(1/len(tickers), ...), prices).dropna()
BenchmarkReturns == dropna(backtest(EqualWeightTable(DOMAIN perf), prices))

\* ew.reindex(cum.index).ffill()
ReindexFfill(s, idx) ==
    [d \in idx |->
        IF \E e \in DOMAIN s : e <= d
        THEN s[CHOOSE e \in DOMAIN s : e <= d /\ \A f \in DOMAIN s : f <= d => f <= e]
        ELSE NaN]

\* the equity curve section: cum = (perf + 1).cumprod(), ew = the
\* benchmark's returns .cumprod(), charted on the index of cum
EquityCurve ==
    /\ pcB = "done"
    /\ cum' = cumprod(PlusOne(perf))
    /\ ew' = ReindexFfill(cumprod(BenchmarkReturns), DOMAIN perf)
    /\ pcB' = "charted"
    /\ UNCHANGED <<weights, prices, prices2, pert, port, port2>>
    /\ UNCHANGED <<varsW, varsA, varsF, varsP, varsM>>

NextB == Backtest \/ EquityCurve

SpecB == InitB /\ [][NextB]_vars

\* C3: two price tables that agree up to date d and differ only in one
\* price on date d+1 give the same portfolio return on every date <= d.
C3_NoLookahead ==
    pcB = "done" =>
        \A d \in DOMAIN port : d < pert[1] => port[d] = port2[d]

\* C14: every date without a preceding weight row (the first weight date
\* and every price date before it) is not-a-number in the series backtest
\* returns, so that the series the caller keeps after dropna holds only
\* dates that have a previous weight row.
C14_NoWeightNoReturn ==
    pcB = "done" =>
        /\ \A d \in DOMAIN port : ~HasPrev(DOMAIN weights, d) => IsNaN(port[d])
        /\ \A d \in DOMAIN perf : HasPrev(DOMAIN weights, d)

\* C16: the benchmark's equity curve is the running product of 1 + period
\* return, as the model portfolio's: period returns that are all zero keep
\* the benchmark curve at 1, and when the benchmark's period returns are
\* those of the model portfolio the two curves are equal on every date.
C16_BenchmarkScoredAsModel ==
    pcB = "charted" =>
        /\ (\A d \in DOMAIN BenchmarkReturns : BenchmarkReturns[d] = RZero) =>
                \A d \in DOMAIN ew : ew[d] = ROne
        /\ BenchmarkReturns = perf => ew = cum

(***************************************************************************)
(* src/src/signals.py: zscore, composite_alpha                             *)
(*                                                                         *)
(* A standardized value z = (x - mean) / std is irrational in general.     *)
(* With var = p/q in lowest terms and p * q = s^2 * r, r squarefree, it is *)
(* z = (x - mean) * (s/p) * sqrt(r): a rational multiple of the square     *)
(* root of a squarefree integer.  A sum of such values is held as the set  *)
(* of its terms <<r, c>>, one per radicand r, with the coefficient c not   *)
(* 0; square roots of different squarefree integers being independent over *)
(* the rationals, two sums are equal exactly when these sets are.  The     *)
(* number 0 is the empty set, not-a-number the set NaNSurd.                *)
(***************************************************************************)
Features == {"mom_12m", "mom_3m", "vol_60d"}

\* Series.mean()
Mean(col) == RDiv(SumSkipNaN(col, DOMAIN col), RInt(Cardinality(DOMAIN col)))

\* df - df.mean()
Deviation(col) == LET m == Mean(col) IN [k \in DOMAIN col |-> RSub(col[k], m)]

\* Series.std() squared: the sample variance (ddof = 1); 0/0 for one row
Variance(col) ==
    LET dev == Deviation(col)
        sq  == [k \in DOMAIN col |-> RMul(dev[k], dev[k])]
    IN  RDiv(SumSkipNaN(sq, DOMAIN col), RInt(Cardinality(DOMAIN col) - 1))

NaNSurd == {<<0, NaN>>}

\* the largest s with s * s dividing n, searched from t upwards
RECURSIVE SquarePartFrom(_, _, _)
SquarePartFrom(n, t, best) ==
    IF t * t > n THEN best
    ELSE SquarePartFrom(n, t + 1, IF n % (t * t) = 0 THEN t ELSE best)

\* dev / std for std = sqrt(var); 0/0 (a constant column) and a division
\* by the not-a-number std of a single row are not-a-number
Standardized(dev, var) ==
    IF IsNaN(dev) \/ IsNaN(var) \/ var = RZero THEN NaNSurd
    ELSE LET n == var[1] * var[2]
             s == SquarePartFrom(n, 1, 1)
             c == RMul(dev, Rat(s, var[1]))
         IN  IF c = RZero THEN {} ELSE {<<n \div (s * s), c>>}

\* (df - df.mean()) / df.std(): the column standardized over the rows of
\* all dates (pooled)
zscore(col) ==
    LET dev == Deviation(col)
        var == Variance(col)
    IN  [k \in DOMAIN col |-> Standardized(dev[k], var)]

\* the coefficient of sqrt(r) in x
CoefOf(x, r) ==
    IF \E t \in x : t[1] = r THEN (CHOOSE t \in x : t[1] = r)[2] ELSE RZero

\* panel.mean(axis=1) of one row: the mean of the values that are not
\* not-a-number, not-a-number when there is none
RowMean(row) ==
    LET valid == {f \in DOMAIN row : row[f] # NaNSurd}
        rads  == UNION {{t[1] : t \in row[f]} : f \in valid}
        coef  == [r \in rads |->
                    RDiv(SumSkipNaN([f \in valid |-> CoefOf(row[f], r)], valid),
                         RInt(Cardinality(valid)))]
    IN  IF valid = {} THEN NaNSurd
        ELSE {<<r, coef[r]>> : r \in {q \in rads : coef[q] # RZero}}

Column(pn, f) == [k \in DOMAIN pn |-> pn[k][f]]

\* for col in panel.columns: panel[col] = zscore(panel[col]), then
\* alpha = panel.mean(axis=1)
composite_alpha(pn) ==
    LET z == [f \in Features |-> zscore(Column(pn, f))]
    IN  [k \in DOMAIN pn |-> RowMean([f \in Features |-> z[f][k]])]

(***************************************************************************)
(* Inputs of composite_alpha: a panel with a full row for every date and   *)
(* ticker, and the panel that differs from it in one feature value.        *)
(***************************************************************************)
DatesA == 1 .. NumDatesA
TickersA == 1 .. NumTickersA
KeysA == DatesA \X TickersA

Panels == [KeysA -> [Features -> {RInt(v) : v \in 1 .. MaxFeat}]]

PerturbedPanel(pn, p) ==
    [pn EXCEPT ![<<p[1], p[2]>>] =
        [pn[<<p[1], p[2]>>] EXCEPT ![p[3]] = RAdd(pn[<<p[1], p[2]>>][p[3]], ROne)]]

InitA ==
    /\ panel \in Panels
    /\ pertA \in DatesA \X TickersA \X Features
    /\ panel2 = PerturbedPanel(panel, pertA)
    /\ score = <<>> /\ score2 = <<>>
    /\ pcA = "call"
    /\ IdleW /\ IdleB /\ IdleF /\ IdleP /\ IdleM

\* alpha = composite_alpha(panel), on both panels
CompositeAlpha ==
    /\ pcA = "call"
    /\ score' = composite_alpha(panel)
    /\ score2' = composite_alpha(panel2)
    /\ pcA' = "done"
    /\ UNCHANGED <<panel, panel2, pertA, varsW, varsB, varsF, varsP, varsM>>

NextA == CompositeAlpha

SpecA == InitA /\ [][NextA]_vars

RowsOn(pn, d) == {k \in DOMAIN pn : k[1] = d}

\* C4: composite_alpha standardizes each feature per date: the value
\* subtracted is the mean of the feature over the assets of the same date
\* (so the centred, hence the standardized, values of a date with at least
\* two assets sum to zero) and the scores of a date do not change when a
\* feature row of another date changes.
C4_StandardizedPerDate ==
    pcA = "done" =>
        /\ \A f \in Features, d \in DatesA :
                Cardinality(RowsOn(panel, d)) >= 2 =>
                    SumSkipNaN(Deviation(Column(panel, f)), RowsOn(panel, d)) = RZero
        /\ \A k \in DOMAIN score : k[1] # pertA[1] => score[k] = score2[k]

(***************************************************************************)
(* External sources (src/src/data_layer.py yf.download; src/app.py the     *)
(* Ken French CSV).  History never changes; pub is the number of months    *)
(* published so far.  The Price Source has day rows up to the last day of  *)
(* month pub for the symbols it knows and no column for another symbol;    *)
(* the Factor Source has percent rows for the months before pub (a month's *)
(* factors are published after it has ended).                              *)
(***************************************************************************)
Listed == {"A", "B"}

\* the ticker lists the sidebar is given: "X" is a custom symbol the Price
\* Source does not know
TickerLists == {<<"A">>, <<"A", "B">>, <<"A", "X">>}

Range(seq) == {seq[i] : i \in DOMAIN seq}

TickerNo(t) == CASE t = "A" -> 1 [] t = "B" -> 2 [] OTHER -> 3

\* adjusted close of symbol t on trading day d
Price(t, d) == 20 + ((d * (TickerNo(t) + 2)) % 7)

\* the row of month m of F-F_Research_Data_Factors, in percent
FFRaw(m) ==
    [MktRF |-> RInt(((m * 5) % 9) - 4), SMB |-> RInt((m % 3) - 1),
     HML |-> RInt(((m * 2) % 5) - 2), RF |-> RInt(1 + (m % 2))]

MonthOf(d) == ((d - 1) \div DaysPerMonth) + 1

\* "History from": date(2015, 1, 1), the default of the sidebar
DefaultStart == "2015-01-01"

\* first trading day on or after the start date
StartDay(start) == IF start = "2000-01-01" THEN 1 ELSE 2 * DaysPerMonth + 1

\* yf.download(...)["Close"].dropna(how="all")
PriceSource(T, start, p) ==
    [d \in StartDay(start) .. p * DaysPerMonth |->
        [t \in Range(T) \cap Listed |-> RInt(Price(t, d))]]

\* pd.read_csv(monthly_url, ...) restricted to the YYYYMM rows
FactorSource(p) == [m \in 1 .. p - 1 |-> FFRaw(m)]

(***************************************************************************)
(* src/app.py: load_or_build_merged, the function body                     *)
(***************************************************************************)
\* the conversion left out
PercentKept(x) == x

\* .div(100)  # Convert percent to decimal
PercentToDecimal(x) == RDiv(x, RInt(100))

\* prices.resample("M").last(): the last price of every month
ResampleMonthLast(px) ==
    [m \in {MonthOf(d) : d \in DOMAIN px} |->
        px[CHOOSE d \in DOMAIN px :
                MonthOf(d) = m /\ \A e \in DOMAIN px : MonthOf(e) = m => e <= d]]

\* DataFrame.dropna(): rows with a not-a-number value are removed
DropNaRows(df) ==
    LET keep == {d \in DOMAIN df : \A a \in DOMAIN df[d] : ~IsNaN(df[d][a])}
    IN  [d \in keep |-> df[d]]

\* raw[["Mkt-RF", "SMB", "HML", "RF"]] ... .div(100) with the columns renamed
FactorsDecimal(raw) ==
    [m \in DOMAIN raw |->
        [MktMinusRF |-> PercentToDecimal(raw[m].MktRF),
         SMB |-> PercentToDecimal(raw[m].SMB),
         HML |-> PercentToDecimal(raw[m].HML),
         RF |-> PercentToDecimal(raw[m].RF)]]

\* monthly_returns.join(ff, how="inner")
JoinInner(mr, ff) ==
    [m \in DOMAIN mr \cap DOMAIN ff |-> [ret |-> mr[m], ff |-> ff[m]]]

\* steps 4 to 5 and the final .dropna(): one row per (Date, Ticker)
LongRows(aligned, T) ==
    LET rows == {[Date |-> m, Ticker |-> t,
                  ExcessReturn |-> RSub(aligned[m].ret[t], aligned[m].ff.RF),
                  MktMinusRF |-> aligned[m].ff.MktMinusRF,
                  SMB |-> aligned[m].ff.SMB,
                  HML |-> aligned[m].ff.HML,
                  RF |-> aligned[m].ff.RF] : m \in DOMAIN aligned, t \in Range(T)}
    IN  {r \in rows : ~IsNaN(r.ExcessReturn) /\ ~IsNaN(r.MktMinusRF)
                        /\ ~IsNaN(r.SMB) /\ ~IsNaN(r.HML) /\ ~IsNaN(r.RF)}

\* the body of load_or_build_merged below the fp.exists() test, given the
\* price table fetch_prices returned, the factor rows (or the failure of
\* the download): [status, rows]; "raised" is the KeyError of
\* aligned[tickers] for a ticker that is no column of the price table
BuildMerged(T, px, ffOk, raw) ==
    LET monthly_prices  == ResampleMonthLast(px)
        monthly_returns == DropNaRows(PctChange(monthly_prices))
        aligned         == JoinInner(monthly_returns, FactorsDecimal(raw))
    IN  IF ~ffOk THEN [status |-> "ff_error", rows |-> {}]
        ELSE IF \E t \in Range(T) : t \notin Columns(px)
             THEN [status |-> "raised", rows |-> {}]
             ELSE [status |-> "built", rows |-> LongRows(aligned, T)]

(***************************************************************************)
(* src/src/data_layer.py: fetch_prices under @lru_cache(maxsize=8).  An    *)
(* entry is [key, value, at]; at, the time of the download, is kept for    *)
(* the claims (lru_cache itself stores no time).  The key is the pair of   *)
(* the ticker list and the start date (the joined string " ".join(tickers) *)
(* names the same list).  lru_cache looks the key up, calls the function   *)
(* without holding its lock, and stores the result when the call returns:  *)
(* the script threads of other sessions run during the download.  A        *)
(* download answers with what its source has when the request is made.     *)
(***************************************************************************)
LruIndex(cache, key) ==
    IF \E i \in DOMAIN cache : cache[i].key = key
    THEN CHOOSE i \in DOMAIN cache : cache[i].key = key
    ELSE 0

Without(cache, i) == SubSeq(cache, 1, i - 1) \o SubSeq(cache, i + 1, Len(cache))

\* a hit moves the entry to the most recent place
LruTouch(cache, i) == Append(Without(cache, i), cache[i])

\* the body of fetch_prices: the table the Price Source has at this moment
fetch_prices(T, start) == PriceSource(T, start, pub)

\* the result of a call that missed: what it downloads and when
Downloaded(T, start) ==
    [key |-> <<T, start>>, value |-> fetch_prices(T, start), at |-> now]

\* the store after the call: a key that was added during the call keeps
\* its entry; the least recent entry above maxsize is evicted
LruStore(cache, e) ==
    IF LruIndex(cache, e.key) > 0 THEN cache
    ELSE LET full == Append(cache, e)
         IN  IF Len(full) > LruMaxSize THEN Tail(full) ELSE full

(***************************************************************************)
(* src/app.py: reruns of the script.  Streamlit runs the script of every   *)
(* session in a thread of its own; the sessions share the clock, the       *)
(* sources, st.cache_data, the lru_cache and the parquet file.  A rerun of *)
(* session s is at pcF[s]:                                                 *)
(*   "fetching"  in yf.download of the pipeline's fetch_prices (line 491)  *)
(*   "fetched"   before merged = load_or_build_merged(tickers) (line 590)  *)
(*   "prices"    in load_or_build_merged, in yf.download (line 353)        *)
(*   "factors"   in load_or_build_merged, in pd.read_csv (line 363)        *)
(*   "loaded"    load_or_build_merged returned                             *)
(*   "crashed"   load_or_build_merged raised                               *)
(*   "regressed" the regression section is over                            *)
(* st.cache_data computes a missing value under a lock of its key: a       *)
(* session that is at "prices" or "factors" holds the lock of its ticker   *)
(* list.                                                                   *)
(***************************************************************************)
Sessions == {"s1", "s2"}

NoFile == [exists |-> FALSE, rows |-> {}, built |-> 0]

\* final.to_parquet(fp, index=False) and pd.read_parquet(fp)
to_parquet(rows) == [exists |-> TRUE, rows |-> rows, built |-> now]
read_parquet(f) == f.rows

InitF ==
    /\ now = 0 /\ pub = Horizon0 /\ runs = 0
    /\ memo = <<>> /\ file = NoFile /\ lru = <<>>
    /\ req = [s \in Sessions |-> <<>>]
    /\ pfetch = [s \in Sessions |-> <<>>]
    /\ held = [s \in Sessions |-> <<>>]
    /\ res = [s \in Sessions |-> <<>>]
    /\ merged = [s \in Sessions |-> {}]
    /\ reg = [s \in Sessions |-> <<>>]
    /\ pcF = [s \in Sessions |-> "idle"]
    /\ IdleW /\ IdleB /\ IdleA /\ IdleP /\ IdleM

\* no rerun of session s is under way
Between(s) == pcF[s] \in {"idle", "crashed", "regressed"}

\* the rerun does not touch the inputs and results of the other sections
RestUnchanged == UNCHANGED <<varsW, varsB, varsA, varsP, varsM>>

\* time passes
Tick ==
    /\ now + TickSeconds <= MaxTicks * TickSeconds
    /\ now' = now + TickSeconds
    /\ UNCHANGED <<pub, runs, memo, file, lru, req, pfetch, held, res, merged, reg, pcF>>
    /\ RestUnchanged

\* the sources publish another month
NewData ==
    /\ pub < Horizon0 + MaxNewData
    /\ pub' = pub + 1
    /\ UNCHANGED <<now, runs, memo, file, lru, req, pfetch, held, res, merged, reg, pcF>>
    /\ RestUnchanged

\* a rerun of session s starts (the sessions are named in the order of
\* their first rerun) and reaches
\* prices = fetch_prices(" ".join(tickers), start=start.isoformat()):
\* the lookup of lru_cache; a hit returns, a miss starts the download
FetchCall(s, T) ==
    /\ Between(s)
    /\ s = "s2" => pcF["s1"] # "idle"
    /\ runs < MaxRuns
    /\ LET i == LruIndex(lru, <<T, DefaultStart>>)
       IN  IF i > 0
           THEN /\ lru' = LruTouch(lru, i)
                /\ pfetch' = [pfetch EXCEPT ![s] =
                                [at |-> lru[i].at, age |-> now - lru[i].at,
                                 hit |-> TRUE, columns |-> Columns(lru[i].value)]]
                /\ pcF' = [pcF EXCEPT ![s] = "fetched"]
                /\ held' = [held EXCEPT ![s] = <<>>]
           ELSE /\ lru' = lru
                /\ pfetch' = [pfetch EXCEPT ![s] = <<>>]
                /\ pcF' = [pcF EXCEPT ![s] = "fetching"]
                /\ held' = [held EXCEPT ![s] = Downloaded(T, DefaultStart)]
    /\ req' = [req EXCEPT ![s] = [tickers |-> T, start |-> DefaultStart]]
    /\ res' = [res EXCEPT ![s] = <<>>]
    /\ merged' = [merged EXCEPT ![s] = {}]
    /\ reg' = [reg EXCEPT ![s] = <<>>]
    /\ runs' = runs + 1
    /\ UNCHANGED <<now, pub, memo, file>>
    /\ RestUnchanged

\* the download of the pipeline's fetch_prices returns and lru_cache stores
FetchReturn(s) ==
    /\ pcF[s] = "fetching"
    /\ lru' = LruStore(lru, held[s])
    /\ pfetch' = [pfetch EXCEPT ![s] =
                    [at |-> held[s].at, age |-> 0, hit |-> FALSE,
                     columns |-> Columns(held[s].value)]]
    /\ held' = [held EXCEPT ![s] = <<>>]
    /\ pcF' = [pcF EXCEPT ![s] = "fetched"]
    /\ UNCHANGED <<now, pub, runs, memo, file, req, res, merged, reg>>
    /\ RestUnchanged

MemoFresh(T) == T \in DOMAIN memo /\ now - memo[T].at < TTL

Memoize(T, rows, built) ==
    [k \in DOMAIN memo \cup {T} |->
        IF k = T THEN [rows |-> rows, built |-> built, at |-> now] ELSE memo[k]]

\* another session computes the value of this ticker list
LockHeld(s, T) ==
    \E o \in Sessions \ {s} : pcF[o] \in {"prices", "factors"} /\ req[o].tickers = T

\* merged = load_or_build_merged(tickers): the lookup of st.cache_data
\* and, on a miss, once the lock of the key is free, the function body up
\* to its first wait: the file is read if it exists, else fetch_prices is
\* called (a miss of lru_cache starts the download of the prices; a hit
\* returns and pd.read_csv starts the download of the factors)
LoadCall(s) ==
    /\ pcF[s] = "fetched"
    /\ LET T == req[s].tickers
           i == LruIndex(lru, <<T, "2000-01-01">>)
       IN  IF MemoFresh(T)
           THEN /\ merged' = [merged EXCEPT ![s] = memo[T].rows]
                /\ res' = [res EXCEPT ![s] =
                            [status |-> "ok", via |-> "memo", built |-> memo[T].built,
                             age |-> now - memo[T].built, fetched |-> FALSE]]
                /\ pcF' = [pcF EXCEPT ![s] = "loaded"]
                /\ UNCHANGED <<memo, lru, held>>
           ELSE /\ ~LockHeld(s, T)
                /\ IF file.exists
                   THEN /\ merged' = [merged EXCEPT ![s] = read_parquet(file)]
                        /\ res' = [res EXCEPT ![s] =
                                    [status |-> "ok", via |-> "file", built |-> file.built,
                                     age |-> now - file.built, fetched |-> FALSE]]
                        /\ memo' = Memoize(T, read_parquet(file), file.built)
                        /\ pcF' = [pcF EXCEPT ![s] = "loaded"]
                        /\ UNCHANGED <<lru, held>>
                   ELSE /\ IF i > 0
                           THEN /\ lru' = LruTouch(lru, i)
                                /\ held' = [held EXCEPT ![s] =
                                              [prices |-> lru[i].value,
                                               raw |-> FactorSource(pub)]]
                                /\ pcF' = [pcF EXCEPT ![s] = "factors"]
                           ELSE /\ held' = [held EXCEPT ![s] =
                                              Downloaded(T, "2000-01-01")]
                                /\ pcF' = [pcF EXCEPT ![s] = "prices"]
                                /\ lru' = lru
                        /\ UNCHANGED <<memo, merged, res>>
    /\ UNCHANGED <<now, pub, runs, file, req, pfetch, reg>>
    /\ RestUnchanged

\* the download of line 353 returns and lru_cache stores; the body goes on
\* to pd.read_csv, which starts the download of the factors
PricesReturn(s) ==
    /\ pcF[s] = "prices"
    /\ lru' = LruStore(lru, held[s])
    /\ held' = [held EXCEPT ![s] =
                  [prices |-> held[s].value, raw |-> FactorSource(pub)]]
    /\ pcF' = [pcF EXCEPT ![s] = "factors"]
    /\ UNCHANGED <<now, pub, runs, memo, file, req, pfetch, res, merged, reg>>
    /\ RestUnchanged

\* pd.read_csv returns, or raises when ffOk is false, and the body runs to
\* its end: the table is written to the file and returned, st.cache_data
\* stores what was returned and frees the lock; an exception of the body
\* frees the lock and ends the script
FactorsReturn(s, ffOk) ==
    /\ pcF[s] = "factors"
    /\ LET T == req[s].tickers
           b == BuildMerged(T, held[s].prices, ffOk, held[s].raw)
       IN  /\ merged' = [merged EXCEPT ![s] = b.rows]
           /\ res' = [res EXCEPT ![s] =
                        [status |-> IF b.status = "raised" THEN "raised" ELSE "ok",
                         via |-> b.status, built |-> now, age |-> 0,
                         fetched |-> TRUE]]
           /\ file' = IF b.status = "built" THEN to_parquet(b.rows) ELSE file
           /\ memo' = IF b.status = "raised" THEN memo ELSE Memoize(T, b.rows, now)
           /\ pcF' = [pcF EXCEPT ![s] =
                        IF b.status = "raised" THEN "crashed" ELSE "loaded"]
    /\ held' = [held EXCEPT ![s] = <<>>]
    /\ UNCHANGED <<now, pub, runs, lru, req, pfetch, reg>>
    /\ RestUnchanged

\* the "Train until" dates tried: months that leave half the minimum and
\* the minimum of monthly rows
Cutoffs == {MinObs \div 2 + 1, MinObs + 1}

\* a minimum one too high
EnoughRowsStrict(n) == n > MinObs

\* len(df_t) >= 12
EnoughRows(n) == n >= MinObs

\* merged[merged["Ticker"] == sel].set_index("Date").loc[:cutoff]
TrainRows(tbl, sel, cutoff) == {r \in tbl : r.Ticker = sel /\ r.Date <= cutoff}

MaxDate(rows) ==
    LET ds == {r.Date : r \in rows} IN CHOOSE d \in ds : \A e \in ds : e <= d

\* the regression section: sel is the selectbox value (a symbol without a
\* price column ends the script at prices[sel] before this point) and
\* cutoff the "Train until" date.  The fit itself (sm.OLS) is not
\* computed: the outcome records that it was made, the dates of the rows
\* it was given and the date of the factor row lastF = X_data.iloc[-1].
Regress(s, sel, cutoff) ==
    /\ pcF[s] = "loaded"
    /\ sel \in Range(req[s].tickers) \cap pfetch[s].columns
    /\ LET df_t == TrainRows(merged[s], sel, cutoff)
       IN  reg' = [reg EXCEPT ![s] =
                    IF merged[s] # {} /\ EnoughRows(Cardinality(df_t))
                    THEN [sel |-> sel, cutoff |-> cutoff, status |-> "fit",
                          train |-> {r.Date : r \in df_t}, lastF |-> MaxDate(df_t)]
                    ELSE [sel |-> sel, cutoff |-> cutoff, status |-> "none",
                          train |-> {}, lastF |-> 0]]
    /\ pcF' = [pcF EXCEPT ![s] = "regressed"]
    /\ UNCHANGED <<now, pub, runs, memo, file, lru, req, pfetch, held, res, merged>>
    /\ RestUnchanged

NextF ==
    \/ Tick
    \/ NewData
    \/ \E s \in Sessions, T \in TickerLists : FetchCall(s, T)
    \/ \E s \in Sessions : FetchReturn(s)
    \/ \E s \in Sessions : LoadCall(s)
    \/ \E s \in Sessions : PricesReturn(s)
    \/ \E s \in Sessions, ffOk \in BOOLEAN : FactorsReturn(s, ffOk)
    \/ \E s \in Sessions, sel \in Listed, cutoff \in Cutoffs : Regress(s, sel, cutoff)

SpecF == InitF /\ [][NextF]_vars

\* pd.DataFrame(1/len(tickers), index=perf.index, columns=tickers): the row
\* of the equal-weight benchmark
EqualWeightBenchmark(T) == [t \in Range(T) |-> Rat(1, Len(T))]

(***************************************************************************)
(* Claims about the Fama-French table, its caches and the regression       *)
(* section (checked under SpecF).                                          *)
(***************************************************************************)
\* C5: the cache of the factor-aligned table is keyed by the ticker set:
\* a request for ticker list T that returns a non-empty table returns rows
\* for the tickers of T and for no other ticker.
C5_TableIsForRequestedTickers ==
    \A s \in Sessions :
        (pcF[s] = "loaded" /\ merged[s] # {}) =>
            {r.Ticker : r \in merged[s]} = Range(req[s].tickers)

\* C6: cached data expires: neither load_or_build_merged nor fetch_prices
\* returns an entry that was built a time-to-live or longer ago; such a
\* request refetches and rebuilds.
C6_NothingServedPastTTL ==
    \A s \in Sessions :
        /\ pcF[s] = "loaded" => res[s].age < TTL
        /\ pcF[s] = "fetched" => pfetch[s].age < TTL

\* the source values a row of the table is to be compared with
LastDayOf(m) == m * DaysPerMonth

SourceReturn(t, m) ==
    RSub(Rat(Price(t, LastDayOf(m)), Price(t, LastDayOf(m - 1))), ROne)

Hundredth(x) == Rat(x[1], x[2] * 100)

\* C7: percent-to-decimal conversion happens exactly once: on every path
\* (fresh build, in-memory hit, read of the file) every factor value of the
\* returned table is the percent value of the Factor Source divided by 100
\* once, and ExcessReturn is the monthly return of the asset minus that
\* decimal RF of the same month.
C7_PercentConvertedOnce ==
    \A s \in Sessions :
        pcF[s] = "loaded" =>
            \A r \in merged[s] :
                /\ r.MktMinusRF = Hundredth(FFRaw(r.Date).MktRF)
                /\ r.SMB = Hundredth(FFRaw(r.Date).SMB)
                /\ r.HML = Hundredth(FFRaw(r.Date).HML)
                /\ r.RF = Hundredth(FFRaw(r.Date).RF)
                /\ r.ExcessReturn =
                        RSub(SourceReturn(r.Ticker, r.Date), Hundredth(FFRaw(r.Date).RF))

\* a table read back from the file by a later rerun, after an in-memory
\* entry for its own ticker list had been made by the build
C7_Witness ==
    \E s \in Sessions :
        /\ pcF[s] = "loaded" /\ res[s].via = "file" /\ merged[s] # {}
        /\ \E T \in DOMAIN memo : T # req[s].tickers /\ memo[T].rows = merged[s]

RowsGiven(s) == {r \in merged[s] : r.Ticker = reg[s].sel /\ r.Date <= reg[s].cutoff}

\* C8: with fewer than 12 monthly rows for the selected asset up to the
\* cutoff (6, or 0 when the asset is not in the table) no fit is made and
\* nothing is produced; with 12 or more rows the fit is made.
C8_FitNeedsTwelveRows ==
    \A s \in Sessions :
        pcF[s] = "regressed" =>
            /\ Cardinality(RowsGiven(s)) < 12 =>
                    reg[s].status = "none" /\ reg[s].train = {} /\ reg[s].lastF = 0
            /\ Cardinality(RowsGiven(s)) >= 12 => reg[s].status = "fit"

\* an asset with 6 months of aligned data up to the cutoff: no result
C8_Witness ==
    \E s \in Sessions :
        /\ pcF[s] = "regressed"
        /\ Cardinality(RowsGiven(s)) = 6
        /\ reg[s].status = "none"

\* C9: the prediction applies the loadings to the most recent factor row
\* of the asset in the aligned table, a row after the cutoff whenever the
\* table has one, and no training row is dated after the cutoff.
C9_PredictsFromLatestRow ==
    \A s \in Sessions :
        (pcF[s] = "regressed" /\ reg[s].status = "fit") =>
            /\ reg[s].lastF = MaxDate({r \in merged[s] : r.Ticker = reg[s].sel})
            /\ \A d \in reg[s].train : d <= reg[s].cutoff

\* C10: when the Price Source returns columns for a strict subset of the
\* requested tickers, load_or_build_merged completes without raising, the
\* table has no row for the missing ticker and the benchmark gives it no
\* weight.
C10_MissingTickerIsNotAnError ==
    \A s \in Sessions :
        (pcF[s] \in {"loaded", "crashed"} /\ res[s].fetched
            /\ pfetch[s].columns # Range(req[s].tickers)) =>
            /\ res[s].status = "ok"
            /\ \A r \in merged[s] : r.Ticker \in pfetch[s].columns
            /\ \A t \in Range(req[s].tickers) \ pfetch[s].columns :
                    EqualWeightBenchmark(req[s].tickers)[t] = RZero

\* C11: a failure of the Factor Source download is a hard failure of the
\* request: load_or_build_merged does not complete with a table in place
\* of the failure, and no empty table is memoized, so that a request made
\* after the source recovers builds the table.  (Every table the sources
\* of the model can build has rows, so an in-memory entry without rows is
\* the table returned by the except branch.)
C11_FactorFailureIsHardFailure ==
    /\ \A s \in Sessions : pcF[s] = "loaded" => res[s].via # "ff_error"
    /\ \A T \in DOMAIN memo : memo[T].rows # {}

(***************************************************************************)
(* src/src/utils.py: performance_stats                                     *)
(*                                                                         *)
(* Two of the four scalars are irrational in general.  The annualized      *)
(* return base ** exponent - 1 is held as the pair of its base and its     *)
(* exponent (it is 0 exactly when the base is 1), and the annualized       *)
(* volatility std * 252 ** 0.5 as its square var * 252 (it is 0, or        *)
(* not-a-number, exactly when its square is).                              *)
(***************************************************************************)
\* the sum of s[lo .. hi], by halves
RECURSIVE SumRange(_, _, _)
SumRange(s, lo, hi) ==
    IF lo > hi THEN RZero
    ELSE IF lo = hi THEN s[lo]
    ELSE LET mid == (lo + hi) \div 2
         IN  RAdd(SumRange(s, lo, mid), SumRange(s, mid + 1, hi))

SeqSum(s) == SumRange(s, 1, Len(s))

\* (1 + series).prod()
RECURSIVE GrossProd(_)
GrossProd(s) ==
    IF s = <<>> THEN ROne ELSE RMul(RAdd(ROne, Head(s)), GrossProd(Tail(s)))

\* series.std() squared: the sample variance (ddof=1); for a single value
\* the divisor n - 1 is 0 and the result not-a-number
SampleVar(s) ==
    LET mean == RDiv(SeqSum(s), RInt(Len(s)))
        sq   == [i \in DOMAIN s |-> RMul(RSub(s[i], mean), RSub(s[i], mean))]
    IN  RDiv(SeqSum(sq), RInt(Len(s) - 1))

\* (1 + series).prod() ** (252/len(series)) - 1
ann_ret(s) == [base |-> GrossProd(s), exponent |-> Rat(PeriodsPerYear, Len(s))]

\* (series.std() * (252 ** 0.5)) squared
ann_vol2(s) == RMul(SampleVar(s), RInt(PeriodsPerYear))

\* bool(ann_vol): only 0.0 is false; not-a-number is true
Truthy(x) == x # RZero

\* ann_ret / ann_vol if ann_vol else 0: the fallback 0, or the quotient of
\* the return by the volatility (not-a-number when the volatility is)
sharpe(s) ==
    [fallback |-> ~Truthy(ann_vol2(s)), ret |-> ann_ret(s), vol2 |-> ann_vol2(s)]

RMaxOf(S) == CHOOSE x \in S : \A y \in S : RGe(x, y)

\* ((series.cumsum()+1).cummax() - (series.cumsum()+1)).max()
max_dd(s) ==
    LET equity == [i \in DOMAIN s |-> RAdd(SeqSum(SubSeq(s, 1, i)), ROne)]
        cummax == [i \in DOMAIN s |-> RMaxOf({equity[j] : j \in 1 .. i})]
    IN  RMaxOf({RSub(cummax[i], equity[i]) : i \in DOMAIN s})

\* the record returned, or the exception of 252/len(series) for a series
\* without rows
performance_stats(s) ==
    IF Len(s) = 0 THEN [status |-> "ZeroDivisionError"]
    ELSE [status |-> "ok", CAGR |-> ann_ret(s), Vol2 |-> ann_vol2(s),
          Sharpe |-> sharpe(s), MaxDD |-> max_dd(s)]

\* return series of up to MaxLenP periods, every return above -1.  The
\* returns are binary fractions: on them the sums and means of pandas'
\* doubles are the exact ones whenever a series is constant, so the exact
\* variance is 0 exactly when the double variance is.  (A decimal such as
\* 0.1 has no exact double; the rounded mean of [0.1, 0.1, 0.1] is not 0.1
\* and the double variance of that constant series is 2.9e-34, not 0: such
\* returns are outside the exact arithmetic of this model.)
ReturnsP == {Rat(-1, 8), RZero, Rat(1, 8), Rat(1, 4)}

SeriesP == UNION {[1 .. n -> ReturnsP] : n \in 0 .. MaxLenP}

InitP ==
    /\ series \in SeriesP
    /\ stats = <<>>
    /\ pcP = "call"
    /\ IdleW /\ IdleB /\ IdleA /\ IdleF /\ IdleM

\* s = performance_stats(perf)
PerformanceStats ==
    /\ pcP = "call"
    /\ stats' = performance_stats(series)
    /\ pcP' = "done"
    /\ UNCHANGED <<series, varsW, varsB, varsA, varsF, varsM>>

NextP == PerformanceStats

SpecP == InitP /\ [][NextP]_vars

(***************************************************************************)
(* Claims about performance_stats (checked under SpecP).                   *)
(***************************************************************************)
AllEqual(s) == \A i, j \in DOMAIN s : s[i] = s[j]

SharpeIsZero(sh) ==
    sh.fallback \/ (sh.ret.base = ROne /\ ~IsNaN(sh.vol2) /\ sh.vol2 # RZero)

\* C12: performance_stats returns the record of four scalars for every
\* return series; for a non-empty series of equal returns, of any length
\* from 1, Vol = 0 and Sharpe = 0 (the zero-volatility fallback); for
\* constant returns 0.0 also CAGR = 0 and MaxDD = 0.
C12_ZeroVolatilityFallback ==
    pcP = "done" =>
        /\ stats.status = "ok"
        /\ (Len(series) >= 1 /\ AllEqual(series)) =>
                /\ stats.Vol2 = RZero
                /\ SharpeIsZero(stats.Sharpe)
        /\ (Len(series) >= 1 /\ \A i \in DOMAIN series : series[i] = RZero) =>
                /\ stats.CAGR.base = ROne
                /\ stats.MaxDD = RZero

(***************************************************************************)
(* src/src/features.py: pct_change, rolling_vol, make_feature_panel        *)
(*                                                                         *)
(* DataFrame.pct_change fills missing prices before it divides when its    *)
(* fill_method is "pad", the default of pandas before 3.0, and does not    *)
(* fill in pandas from 3.0 on; the repository pins no version, so the      *)
(* default in force, fm, is an input.  The index of a price table is a set *)
(* of day numbers; a window counts rows (positions), not days.  vol_60d is *)
(* held as its square, var * 252.                                          *)
(***************************************************************************)
\* the price pct_change divides: with "pad" a missing price is replaced by
\* the last valid price before it, if there is one
Filled(px, fm, d, t) ==
    LET before == {e \in DOMAIN px : e < d /\ ~IsNaN(px[e][t])}
    IN  IF fm = "pad" /\ IsNaN(px[d][t]) /\ before # {}
        THEN px[CHOOSE e \in before : \A f \in before : f <= e][t]
        ELSE px[d][t]

\* the index label k rows before the row of d, 0 when there is none
Back(px, d, k) ==
    LET idx  == DOMAIN px
        none == {f \in (d - k - Cardinality((1 .. d) \ idx)) .. d : f \notin idx}
        c    == {e \in idx : /\ e <= d - k
                              /\ e >= d - k - Cardinality(none)
                              /\ (d - e) - Cardinality({f \in none : e < f}) = k}
    IN  IF c = {} THEN 0 ELSE CHOOSE e \in c : TRUE

\* prices.pct_change(window), one cell
pct_change(px, fm, window, d, t) ==
    LET e == Back(px, d, window)
    IN  IF e \in DOMAIN px
        THEN RSub(RDiv(Filled(px, fm, d, t), Filled(px, fm, e, t)), ROne)
        ELSE NaN

\* (prices.pct_change().rolling(window).std() * np.sqrt(252)) squared, one
\* cell: not-a-number unless the window holds `window` valid daily returns
rolling_vol(px, fm, window, d, t) ==
    LET row == [i \in 1 .. window |-> Back(px, d, window - i)]
        ret == [i \in 1 .. window |->
                    IF row[i] \in DOMAIN px THEN pct_change(px, fm, 1, row[i], t)
                    ELSE NaN]
    IN  IF \A i \in 1 .. window : ~IsNaN(ret[i])
        THEN RMul(SampleVar(ret), RInt(PeriodsPerYear))
        ELSE NaN

\* pd.concat(feats, axis=1).stack(level=1).dropna(): the rows (date,
\* ticker) in which no feature is not-a-number
make_feature_panel(px, fm) ==
    LET keys == {k \in (DOMAIN px) \X Columns(px) :
                    /\ ~IsNaN(pct_change(px, fm, Mom12Window, k[1], k[2]))
                    /\ ~IsNaN(pct_change(px, fm, Mom3Window, k[1], k[2]))
                    /\ ~IsNaN(rolling_vol(px, fm, VolWindow, k[1], k[2]))}
    IN  [k \in keys |->
            [mom_12m |-> pct_change(px, fm, Mom12Window, k[1], k[2]),
             mom_3m  |-> pct_change(px, fm, Mom3Window, k[1], k[2]),
             vol_60d |-> rolling_vol(px, fm, VolWindow, k[1], k[2])]]

(***************************************************************************)
(* Inputs of make_feature_panel: the price table fetch_prices returns for  *)
(* a download over DatesM in which every ticker is listed from its first   *)
(* date on (not-a-number before it) and has at most one missing price      *)
(* afterwards; fetch_prices drops the dates on which no ticker has a       *)
(* price, the other dates keep their labels.                               *)
(***************************************************************************)
DatesM == 1 .. NumDatesM
TickersM == 1 .. NumTickersM

PriceM(t, d) == RInt(1 + ((d + t) % 2))

\* first dates of a ticker, and the date of its missing price (0: none):
\* the date 63 periods before the first date with a 12-month momentum, or
\* the date before the last
StartsM == {1, 2}
GapsM == {0, Mom12Window + 1 - Mom3Window, NumDatesM - 1}

\* yf.download(...)["Close"]
DownloadM(first, gap) ==
    [d \in DatesM |->
        [t \in TickersM |->
            IF d < first[t] \/ d = gap[t] THEN NaN ELSE PriceM(t, d)]]

\* .dropna(how="all"): the rows with at least one price
DropAllNaRows(df) ==
    LET kept == {d \in DOMAIN df : \E t \in DOMAIN df[d] : ~IsNaN(df[d][t])}
    IN  [d \in kept |-> df[d]]

PriceTableM(first, gap) == DropAllNaRows(DownloadM(first, gap))

FillMethods == {"pad", "none"}

InitM ==
    /\ \E first \in [TickersM -> StartsM], gap \in [TickersM -> GapsM] :
            table = PriceTableM(first, gap)
    /\ fill \in FillMethods
    /\ feats = <<>>
    /\ pcM = "call"
    /\ IdleW /\ IdleB /\ IdleA /\ IdleF /\ IdleP

\* panel = make_feature_panel(prices)
MakeFeaturePanel ==
    /\ pcM = "call"
    /\ feats' = make_feature_panel(table, fill)
    /\ pcM' = "done"
    /\ UNCHANGED <<table, fill, varsW, varsB, varsA, varsF, varsP>>

NextM == MakeFeaturePanel

SpecM == InitM /\ [][NextM]_vars

(***************************************************************************)
(* Claims about make_feature_panel (checked under SpecM).                  *)
(***************************************************************************)
ValidPrice(d, t) == d \in DOMAIN table /\ ~IsNaN(table[d][t])

\* all three features are defined for (d, t), from the prices alone: the
\* price of the date, the prices 252 and 63 periods earlier, and 60 daily
\* returns ending on the date (the 61 prices they are made of)
AllFeaturesDefined(d, t) ==
    /\ ValidPrice(d, t)
    /\ ValidPrice(Back(table, d, Mom12Window), t)
    /\ ValidPrice(Back(table, d, Mom3Window), t)
    /\ \A j \in 1 .. VolWindow : ValidPrice(Back(table, d, j), t)

Position(d) == Cardinality({e \in DOMAIN table : e <= d})

GapFree == \A d \in DOMAIN table, t \in TickersM : ValidPrice(d, t)

\* C15: the panel has no partial rows: (date, asset) is a row exactly when
\* all three features are defined for it; a gap-free table gives a panel
\* that starts on the 253rd date; the rows of an asset do not depend on
\* the history of another asset.
C15_NoPartialRows ==
    pcM = "done" =>
        /\ \A d \in DOMAIN table, t \in TickersM :
                <<d, t>> \in DOMAIN feats <=> AllFeaturesDefined(d, t)
        /\ \A k \in DOMAIN feats :
                /\ ~IsNaN(feats[k].mom_12m)
                /\ ~IsNaN(feats[k].mom_3m)
                /\ ~IsNaN(feats[k].vol_60d)
        /\ GapFree =>
                /\ DOMAIN feats # {}
                /\ \A k \in DOMAIN feats : Position(k[1]) >= Mom12Window + 1
                /\ \E k \in DOMAIN feats : Position(k[1]) = Mom12Window + 1

=============================================================================
